---- MODULE Spec2Model ----
EXTENDS Integers, Sequences, FiniteSets, TLC

(***************************************************************************)
(* Model of src/lib.rs: the Chunk splitter (boundary arithmetic, header,   *)
(* iterator) and the ChunkStatus state machine.                            *)
(*                                                                         *)
(* usize values are kept as integers.  The pointer arithmetic of           *)
(* get_pointer can go below zero; a build with overflow checks panics      *)
(* there, a build without them wraps modulo 2^(8*size_of_usize).  A wrapped*)
(* value 2^w + v (v < 0) is kept as the negative integer v: sums and       *)
(* differences of such representatives are exact modulo 2^w, and usize_gt  *)
(* compares them as the unsigned values they stand for.                    *)
(***************************************************************************)

\* ---- bounds of the model ------------------------------------------------
MaxFrame == 20
MaxLen == 12
MaxIndex == 3
MaxNumber == 2
MaxExtra == 1
NonesCap == 2

\* ---- program constants --------------------------------------------------
U8Max == 255
TestLen == 1000
TestFrame == 250
TestTopic == 16

\* size_of::<usize>() of the build target: the crate links std (println!), which
\* exists for 32-bit and 64-bit targets
TargetWidths == {4, 8}
Topics == {TestTopic, 255}

Min(a, b) == IF a < b THEN a ELSE b

VARIABLES
    counter,          \* Chunk.counter
    topic,            \* Chunk.topic
    data,             \* Chunk.data (the borrowed payload)
    max_chunk_size,   \* Chunk.max_chunk_size
    meta_size,        \* Chunk.meta_size
    status,           \* Chunk.status : ChunkStatus
    size_of_usize,    \* build target: core::mem::size_of::<usize>()
    overflow_checks,  \* build profile: arithmetic overflow panics (TRUE) or wraps
    aborted,          \* a panic has unwound the caller
    ret,              \* the last call: operation, argument, returned value
    produced,         \* concatenation of the slices next() has returned
    yielded,          \* the indices next() has returned, in order
    nones,            \* how often next() has returned None (counted up to NonesCap)
    streak,           \* increase_retry() calls since the status was new or last
                      \* reset by to_send / to_received (counted up to U8Max + 2)
    sent              \* the argument of the most recent to_send()

vars == <<counter, topic, data, max_chunk_size, meta_size, status,
          size_of_usize, overflow_checks, aborted, ret, produced, yielded, nones, streak, sent>>

\* ---- Option<usize> --------------------------------------------------------
None == [some |-> FALSE, v |-> 0]
Some(x) == [some |-> TRUE, v |-> x]
unwrap_or(o, d) == IF o.some THEN o.v ELSE d

\* ---- ChunkStatus ----------------------------------------------------------
\* #[derive(Default)]
ChunkStatus_default == [number |-> None, session |-> "None", retry |-> 0]

\* ChunkStatus { ..Default::default() }
ChunkStatus_new == ChunkStatus_default

\* mutant: a restarted send keeps the retries of the previous attempt
to_send_keep_retry(st, number) ==
    [st EXCEPT !.number = Some(number), !.session = "Sended"]

to_send(st, number) ==
    [number |-> Some(number), session |-> "Sended", retry |-> 0]

\* mutant: only a tracked number can mismatch, a status without one accepts
to_received_panics_tracked(st, number) ==
    st.number.some /\ st.number # Some(number)

\* mutant: the number is not compared at all
to_received_panics_never(st, number) == FALSE

\* the panic of to_received: the tracked number is not the acknowledged one
to_received_panics(st, number) == st.number # Some(number)

\* mutant: the acknowledgement keeps the retries of the send
to_received_keep_retry(st, number) ==
    [st EXCEPT !.session = "Received"]

to_received(st, number) ==
    [st EXCEPT !.session = "Received", !.retry = 0]

\* mutant: the counter gives up one step early, at u8::MAX - 1
increase_retry_overflows_early(st) == st.retry >= U8Max - 1

\* Err(OverflowRetryCounter)
increase_retry_overflows(st) == st.retry = U8Max

\* mutant: a retry marks the chunk as sent again
increase_retry_resend(st) ==
    [st EXCEPT !.retry = st.retry + 1, !.session = "Sended"]

increase_retry(st) == [st EXCEPT !.retry = st.retry + 1]

\* ---- the Chunk value the methods read (self) --------------------------------
Self ==
    [counter |-> counter, topic |-> topic, data |-> data,
     max_chunk_size |-> max_chunk_size, meta_size |-> meta_size]

\* mutant: the length is written most significant byte first
RECURSIVE to_be_bytes(_, _)
to_be_bytes(n, width) ==
    IF width = 0 THEN <<>>
    ELSE to_be_bytes(n \div 256, width - 1) \o <<n % 256>>

\* usize::to_le_bytes on a target whose usize has `width` bytes
RECURSIVE to_le_bytes(_, _)
to_le_bytes(n, width) ==
    IF width = 0 THEN <<>>
    ELSE <<n % 256>> \o to_le_bytes(n \div 256, width - 1)

\* usize::from_le_bytes
RECURSIVE from_le_bytes(_)
from_le_bytes(bytes) ==
    IF bytes = <<>> THEN 0
    ELSE Head(bytes) + 256 * from_le_bytes(Tail(bytes))

\* [u8; size_of::<usize>() + 1]: the width is the target's, not the field meta_size
header(s) == <<s.topic>> \o to_le_bytes(Len(s.data), size_of_usize)

\* mutant: an input of exactly usize bytes is rejected too
meta_strict(resp, width) ==
    IF Len(resp) <= width
    THEN [kind |-> "InvalidMetaSize", v |-> 0]
    ELSE [kind |-> "Ok", v |-> from_le_bytes(SubSeq(resp, 1, width))]

meta(resp, width) ==
    IF Len(resp) < width
    THEN [kind |-> "InvalidMetaSize", v |-> 0]
    ELSE [kind |-> "Ok", v |-> from_le_bytes(SubSeq(resp, 1, width))]

\* mutant: the cursor advances by two
inc_counter_twice(c) == c + 2

inc_counter(c) == c + 1

\* unsigned a > b on the representatives (negative = wrapped, hence huge)
usize_gt(a, b) == IF (a < 0) = (b < 0) THEN a > b ELSE a < 0

\* mutant: only the chunks after the first pay the size prefix
get_pointer_first_full(s, c) ==
    IF c = 0 THEN 0
    ELSE c * s.max_chunk_size - s.meta_size * (c - 1) - Len(header(s))

\* mutant: the size prefix is charged once, not once per chunk
get_pointer_flat(s, c) ==
    IF c = 0 THEN 0
    ELSE c * s.max_chunk_size - s.meta_size - Len(header(s))

\* mutant: the one-time header is not charged
get_pointer_no_header(s, c) ==
    IF c = 0 THEN 0
    ELSE c * s.max_chunk_size - s.meta_size * c

\* mutant: the frames are counted from the previous index
get_pointer_prev(s, c) ==
    IF c = 0 THEN 0
    ELSE (c - 1) * s.max_chunk_size - s.meta_size * c - Len(header(s))

\* counter * max - meta * counter - header.len(), left to right.
get_pointer(s, c) ==
    IF c = 0 THEN 0
    ELSE c * s.max_chunk_size - s.meta_size * c - Len(header(s))

\* one of the two subtractions of get_pointer goes below zero
get_pointer_overflows(s, c) ==
    /\ c # 0
    /\ \/ c * s.max_chunk_size < s.meta_size * c
       \/ c * s.max_chunk_size - s.meta_size * c < Len(header(s))

\* mutant: the explicit index is ignored
start_cursor(s, c) == get_pointer(s, s.counter)

start(s, c) == get_pointer(s, unwrap_or(c, s.counter))

\* mutant: a chunk spans a whole frame, so consecutive chunks overlap
end_overlap(s, c) == get_pointer(s, unwrap_or(c, s.counter)) + s.max_chunk_size

end(s, c) == get_pointer(s, unwrap_or(c, s.counter) + 1)

NoChunk == [kind |-> "None", slice |-> <<>>, index |-> 0]
Panic == [kind |-> "Panic", slice |-> <<>>, index |-> 0]
SomeChunk(sl, i) == [kind |-> "Some", slice |-> sl, index |-> i]

\* Chunk::chunk; `checks` is the build's overflow-checks setting
chunk(s, c, checks) ==
    LET idx == unwrap_or(c, s.counter)
        st == start(s, c)
        en == end(s, c)
        len == Len(s.data)
    IN  IF checks /\ get_pointer_overflows(s, idx) THEN Panic
        ELSE IF usize_gt(st, len) THEN NoChunk
        ELSE IF checks /\ get_pointer_overflows(s, idx + 1) THEN Panic
        ELSE IF usize_gt(en, len) THEN SomeChunk(SubSeq(s.data, st + 1, len), idx)
        ELSE IF st > en THEN Panic
        ELSE SomeChunk(SubSeq(s.data, st + 1, en), idx)

\* ---- the record of the last call --------------------------------------------
Ret(op, arg, kind, slice, index, pre) ==
    [op |-> op, arg |-> arg, kind |-> kind, slice |-> slice, index |-> index,
     pre |-> pre]

\* ---- initial states -----------------------------------------------------------
Payload(len, k) == [i \in 1..len |-> (k * i) % 256]

Chunk_new(max, t, d) ==
    /\ counter = 0
    /\ data = d
    /\ topic = t
    /\ max_chunk_size = max
    /\ meta_size = size_of_usize
    /\ status = ChunkStatus_new

\* Chunk::default(), derived: every field is its type's default
Chunk_default ==
    /\ counter = 0
    /\ topic = 0
    /\ data = <<>>
    /\ max_chunk_size = 0
    /\ meta_size = 0
    /\ status = ChunkStatus_default

Fresh ==
    /\ aborted = FALSE
    /\ ret = Ret("new", None, "Ok", <<>>, 0, ChunkStatus_new)
    /\ produced = <<>>
    /\ yielded = <<>>
    /\ nones = 0
    /\ streak = 0
    /\ sent = None

\* the fixture of tests::test_chunk / tests::test_header
InitTest ==
    /\ size_of_usize = 8
    /\ overflow_checks \in BOOLEAN
    /\ Chunk_new(TestFrame, TestTopic, Payload(TestLen, 0))
    /\ Fresh

Init ==
    \/ /\ size_of_usize \in TargetWidths
       /\ overflow_checks \in BOOLEAN
       /\ \/ \E max \in 0..MaxFrame, t \in Topics, len \in 0..MaxLen, k \in {0, 1} :
                Chunk_new(max, t, Payload(len, k))
          \/ Chunk_default
       /\ Fresh
    \/ InitTest

\* ---- Chunk operations -----------------------------------------------------------
\* mutant: the cursor advances whether or not a chunk was returned
NextCallAlways ==
    /\ ~aborted
    /\ LET r == chunk(Self, Some(counter), overflow_checks)
       IN  /\ ret' = Ret("next", None, r.kind, r.slice, r.index, status)
           /\ counter' = inc_counter(counter)
           /\ produced' = IF r.kind = "Some" THEN produced \o r.slice ELSE produced
           /\ yielded' = IF r.kind = "Some" THEN Append(yielded, r.index) ELSE yielded
           /\ nones' = IF r.kind = "None" /\ nones < NonesCap THEN nones + 1 ELSE nones
           /\ aborted' = (r.kind = "Panic")
    /\ UNCHANGED <<topic, data, max_chunk_size, meta_size, status, overflow_checks, size_of_usize,
                   streak, sent>>

\* mutant: producing a chunk marks it as sent in the embedded status
NextCallTracks ==
    /\ ~aborted
    /\ LET r == chunk(Self, Some(counter), overflow_checks)
       IN  /\ ret' = Ret("next", None, r.kind, r.slice, r.index, status)
           /\ counter' = IF r.kind = "Some" THEN inc_counter(counter) ELSE counter
           /\ produced' = IF r.kind = "Some" THEN produced \o r.slice ELSE produced
           /\ yielded' = IF r.kind = "Some" THEN Append(yielded, r.index) ELSE yielded
           /\ nones' = IF r.kind = "None" /\ nones < NonesCap THEN nones + 1 ELSE nones
           /\ aborted' = (r.kind = "Panic")
           /\ status' = IF r.kind = "Some" THEN to_send(status, r.index) ELSE status
    /\ UNCHANGED <<topic, data, max_chunk_size, meta_size, overflow_checks, size_of_usize,
                   streak, sent>>

NextCall ==
    /\ ~aborted
    /\ LET r == chunk(Self, Some(counter), overflow_checks)
       IN  /\ ret' = Ret("next", None, r.kind, r.slice, r.index, status)
           /\ counter' = IF r.kind = "Some" THEN inc_counter(counter) ELSE counter
           /\ produced' = IF r.kind = "Some" THEN produced \o r.slice ELSE produced
           /\ yielded' = IF r.kind = "Some" THEN Append(yielded, r.index) ELSE yielded
           /\ nones' = IF r.kind = "None" /\ nones < NonesCap THEN nones + 1 ELSE nones
           /\ aborted' = (r.kind = "Panic")
    /\ UNCHANGED <<topic, data, max_chunk_size, meta_size, status, overflow_checks, size_of_usize,
                   streak, sent>>

ChunkCall(c) ==
    /\ ~aborted
    /\ LET r == chunk(Self, c, overflow_checks)
       IN  /\ ret' = Ret("chunk", c, r.kind, r.slice, r.index, status)
           /\ aborted' = (r.kind = "Panic")
    /\ UNCHANGED <<counter, topic, data, max_chunk_size, meta_size, status,
                   overflow_checks, size_of_usize, produced, yielded, nones, streak, sent>>

HeaderCall ==
    /\ ~aborted
    /\ ret' = Ret("header", None, "Ok", header(Self), 0, status)
    /\ UNCHANGED <<counter, topic, data, max_chunk_size, meta_size, status,
                   overflow_checks, size_of_usize, aborted, produced, yielded, nones, streak, sent>>

CounterCall ==
    /\ ~aborted
    /\ ret' = Ret("counter", None, "Ok", <<>>, counter, status)
    /\ UNCHANGED <<counter, topic, data, max_chunk_size, meta_size, status,
                   overflow_checks, size_of_usize, aborted, produced, yielded, nones, streak, sent>>

Indices == {None} \cup {Some(i) : i \in 0..MaxIndex}

Next ==
    \/ NextCall
    \/ \E c \in Indices : ChunkCall(c)
    \/ HeaderCall
    \/ CounterCall

Spec == Init /\ [][Next]_vars

\* ---- Chunk::meta on its own ------------------------------------------------------
ByteSamples == {0, 1, 255}

\* byte strings of up to usize + MaxExtra bytes; the bytes meta() decodes are
\* kept to values below 2^31
MetaInputs ==
    [w \in TargetWidths |->
        UNION {{b \in [1..n -> ByteSamples] :
                   \A i \in 1..Min(n, w) : /\ i > 4 => b[i] = 0
                                           /\ i = 4 => b[i] < 128}
               : n \in 0..(w + MaxExtra)}]

MetaCall(resp) ==
    /\ ~aborted
    /\ LET r == meta(resp, size_of_usize)
       IN  ret' = Ret("meta", None, r.kind, resp, r.v, status)
    /\ UNCHANGED <<counter, topic, data, max_chunk_size, meta_size, status,
                   overflow_checks, size_of_usize, aborted, produced, yielded, nones, streak, sent>>

InitMeta ==
    /\ size_of_usize \in TargetWidths
    /\ overflow_checks = TRUE
    /\ Chunk_new(TestFrame, TestTopic, Payload(MaxLen, 1))
    /\ Fresh

NextMeta == \E resp \in MetaInputs[size_of_usize] : MetaCall(resp)

SpecMeta == InitMeta /\ [][NextMeta]_vars

\* ---- ChunkStatus operations -------------------------------------------------------
ToSendCall(number) ==
    /\ ~aborted
    /\ status' = to_send(status, number)
    /\ ret' = Ret("to_send", Some(number), "Ok", <<>>, 0, status)
    /\ streak' = 0
    /\ sent' = Some(number)
    /\ UNCHANGED <<counter, topic, data, max_chunk_size, meta_size,
                   overflow_checks, size_of_usize, aborted, produced, yielded, nones>>

ToReceivedCall(number) ==
    /\ ~aborted
    /\ IF to_received_panics(status, number)
       THEN /\ aborted' = TRUE
            /\ ret' = Ret("to_received", Some(number), "Panic", <<>>, 0, status)
            /\ UNCHANGED <<status, streak>>
       ELSE /\ status' = to_received(status, number)
            /\ ret' = Ret("to_received", Some(number), "Ok", <<>>, 0, status)
            /\ streak' = 0
            /\ UNCHANGED aborted
    /\ UNCHANGED <<counter, topic, data, max_chunk_size, meta_size,
                   overflow_checks, size_of_usize, produced, yielded, nones, sent>>

\* `written`: whether println! could write the trace line to stdout; it panics
\* when it cannot, before the counter is looked at
IncreaseRetryCall(written) ==
    /\ ~aborted
    /\ IF ~written
       THEN /\ ret' = Ret("increase_retry", None, "Panic", <<>>, 0, status)
            /\ aborted' = TRUE
            /\ UNCHANGED status
       ELSE IF increase_retry_overflows(status)
       THEN /\ ret' = Ret("increase_retry", None, "OverflowRetryCounter", <<>>, 0, status)
            /\ UNCHANGED <<status, aborted>>
       ELSE /\ status' = increase_retry(status)
            /\ ret' = Ret("increase_retry", None, "Ok", <<>>, status'.retry, status)
            /\ UNCHANGED aborted
    /\ streak' = Min(streak + 1, U8Max + 2)
    /\ UNCHANGED <<counter, topic, data, max_chunk_size, meta_size,
                   overflow_checks, size_of_usize, produced, yielded, nones, sent>>

InitStatus ==
    /\ size_of_usize = 8
    /\ overflow_checks = TRUE
    /\ Chunk_new(TestFrame, TestTopic, Payload(MaxLen, 1))
    /\ Fresh

NextStatus ==
    \/ \E number \in 0..MaxNumber : ToSendCall(number)
    \/ \E number \in 0..MaxNumber : ToReceivedCall(number)
    \/ \E written \in BOOLEAN : IncreaseRetryCall(written)

SpecStatus == InitStatus /\ [][NextStatus]_vars

\* ---- a Chunk and its embedded status, driven together ------------------------------
\* one Chunk on a 64-bit target: twelve bytes in frames of eighteen, chunks of
\* 1, 10 and 1 bytes
InitAll ==
    /\ size_of_usize = 8
    /\ overflow_checks = TRUE
    /\ Chunk_new(18, TestTopic, Payload(12, 1))
    /\ Fresh

NextAll ==
    \/ NextCall
    \/ \E c \in Indices : ChunkCall(c)
    \/ HeaderCall
    \/ CounterCall
    \/ \E number \in 0..MaxNumber : ToSendCall(number)
    \/ \E number \in 0..MaxNumber : ToReceivedCall(number)
    \/ \E written \in BOOLEAN : IncreaseRetryCall(written)

SpecAll == InitAll /\ [][NextAll]_vars

\* ---- properties of the Chunk operations -------------------------------------------
\* In the properties, meta_size is the byte width of usize, size_of_usize: the
\* width of the length field of the header.  The field Chunk.meta_size holds
\* it in every Chunk that Chunk::new built.
\*
\* the frame is large enough for every offset to be computed without underflow
NoUnderflow == max_chunk_size >= 2 * size_of_usize + 1

ReturnedChunk == ret.op \in {"next", "chunk"} /\ ret.kind = "Some"

\* C1: round trip.  With max_chunk_size >= 2*meta_size + 1, the slices next()
\* has returned so far are, concatenated in order, a prefix of the payload, and
\* once next() has returned None they are the whole payload.
C1_RoundTrip ==
    NoUnderflow =>
        /\ ~aborted
        /\ Len(produced) <= Len(data)
        /\ produced = SubSeq(data, 1, Len(produced))
        /\ nones > 0 => produced = data

\* C1 witness: a payload of distinct bytes came back whole in three or more chunks
C1_Witness ==
    /\ NoUnderflow
    /\ nones > 0
    /\ Len(yielded) >= 3
    /\ Len(data) >= 2
    /\ data[1] # data[2]
    /\ produced = data

\* C2 as stated: chunk 0 has min(M - H, L) data bytes, H = meta_size + 1
\* (stated for frames whose offsets are computed without underflow).
C2_Original ==
    (NoUnderflow /\ ReturnedChunk /\ ret.index = 0) =>
        Len(ret.slice) = Min(max_chunk_size - (size_of_usize + 1), Len(data))

\* C2 amended: chunk 0 has min(M - H - meta_size, L) = min(M - 2*meta_size - 1, L)
\* data bytes when M >= 2*meta_size + 1; for a smaller M the end offset
\* underflows and a build that wraps returns the whole payload.
C2_FirstChunk ==
    (ReturnedChunk /\ ret.index = 0) =>
        IF NoUnderflow
        THEN Len(ret.slice) = Min(max_chunk_size - 2 * size_of_usize - 1, Len(data))
        ELSE ~overflow_checks /\ ret.slice = data

\* C2 witness: the test fixture, 1000 bytes in frames of 250 with an 8-byte usize:
\* the first chunk next() returns has 233 bytes
C2_Witness ==
    /\ ret.op = "next"
    /\ ret.kind = "Some"
    /\ ret.index = 0
    /\ Len(data) = TestLen
    /\ max_chunk_size = TestFrame
    /\ size_of_usize = 8
    /\ Len(ret.slice) = 233

\* C3: a returned chunk of index i > 0 has min(M - meta_size, L - start) data
\* bytes, start = i*(M - meta_size) - (meta_size + 1) being its offset.
C3_LaterChunks ==
    (ReturnedChunk /\ ret.index > 0) =>
        LET off == ret.index * (max_chunk_size - size_of_usize) - (size_of_usize + 1)
        IN  /\ 0 <= off
            /\ off <= Len(data)
            /\ Len(ret.slice) = Min(max_chunk_size - size_of_usize, Len(data) - off)
            /\ ret.slice = SubSeq(data, off + 1, off + Len(ret.slice))

\* C3 witness: after a full chunk 1 of M - meta_size bytes, chunk 2 is the
\* short final one
C3_Witness ==
    /\ ret.op = "next"
    /\ ret.kind = "Some"
    /\ ret.index = 2
    /\ Len(ret.slice) > 0
    /\ Len(ret.slice) < max_chunk_size - size_of_usize
    /\ Len(produced) = Len(data)

\* C4 as stated: at most payload.len() calls of next() return a chunk
\* (stated for frames in which every chunk has room for data).
C4_Original ==
    max_chunk_size >= 2 * size_of_usize + 2 => Len(yielded) <= Len(data)

\* C5: the k-th chunk next() returns carries index k - 1, the cursor before the
\* call; the indices are 0, 1, 2, ... without gap or repetition.
C5_IndicesInOrder ==
    /\ \A k \in 1..Len(yielded) : yielded[k] = k - 1
    /\ (ret.op = "next" /\ ret.kind = "Some") =>
           /\ ret.index = Len(yielded) - 1
           /\ ret.index = counter - 1

\* C5 witness: next() has returned 0, 1, 2 and a chunk(index) call came between
C5_Witness ==
    /\ Len(yielded) >= 3
    /\ ret.op = "chunk"
    /\ ret.arg = Some(0)

\* C6: next() adds one to the cursor when it returns a chunk and leaves it alone
\* when it returns None; after a None every later next() returns None; the
\* cursor is the number of chunks returned.
C6_CursorSteps ==
    /\ [](counter = Len(yielded))
    /\ [][NextCall =>
            /\ ret'.kind = "Some" => counter' = counter + 1
            /\ ret'.kind = "None" => counter' = counter
            /\ nones > 0 => (ret'.kind = "None" /\ UNCHANGED <<produced, yielded>>)]_vars

\* C6 witness: next() returned None a second time, with the cursor where the
\* last chunk left it
C6_Witness ==
    /\ nones >= 2
    /\ ret.op = "next"
    /\ ret.kind = "None"
    /\ counter >= 2
    /\ counter = Len(yielded)

\* C7: chunk(index) changes nothing but the record of the call; chunk(Some(i))
\* returns the same whatever the cursor is, and chunk(None) returns what
\* chunk(Some(cursor)) returns.
C7_ChunkPure ==
    [][\A c \in Indices : ChunkCall(c) =>
          /\ UNCHANGED <<counter, topic, data, max_chunk_size, meta_size, status,
                         produced, yielded, nones>>
          /\ LET r == [kind |-> ret'.kind, slice |-> ret'.slice, index |-> ret'.index]
             IN  IF c.some
                 THEN /\ \A k \in 0..(MaxIndex + 2) :
                            r = chunk([Self EXCEPT !.counter = k], c, overflow_checks)
                      /\ r.kind = "Some" => r.index = c.v
                 ELSE r = chunk(Self, Some(counter), overflow_checks)]_vars

\* C7 witness: chunk(Some(0)) returned chunk 0 after the cursor had moved past it
C7_Witness ==
    /\ ret.op = "chunk"
    /\ ret.arg = Some(0)
    /\ ret.kind = "Some"
    /\ ret.index = 0
    /\ Len(ret.slice) > 0
    /\ counter >= 2

\* C8: header() is meta_size + 1 bytes, the topic first, and meta() of the bytes
\* after the topic is the payload length, whatever the cursor is.
C8_HeaderRoundTrip ==
    ret.op = "header" =>
        /\ Len(ret.slice) = size_of_usize + 1
        /\ ret.slice[1] = topic
        /\ meta(SubSeq(ret.slice, 2, Len(ret.slice)), size_of_usize)
               = [kind |-> "Ok", v |-> Len(data)]

\* C8 witness: the header of the test fixture, taken after chunks were produced
C8_Witness ==
    /\ ret.op = "header"
    /\ ret.slice = <<TestTopic, 232, 3, 0, 0, 0, 0, 0, 0>>
    /\ Len(data) = TestLen
    /\ counter >= 2

\* ---- properties of Chunk::meta ----------------------------------------------------
\* the number whose little-endian digits are the first `width` bytes
RECURSIVE LittleEndianValue(_, _)
LittleEndianValue(bytes, width) ==
    IF width = 0 THEN 0
    ELSE LittleEndianValue(bytes, width - 1)
         + (IF bytes[width] = 0 THEN 0 ELSE bytes[width] * 256 ^ (width - 1))

\* C9: meta(bytes) is Err(InvalidMetaSize) exactly when bytes is shorter than
\* usize; otherwise it is Ok of the little-endian value of the first
\* meta_size bytes, whatever follows them.
C9_MetaDecodes ==
    ret.op = "meta" =>
        /\ ret.kind \in {"Ok", "InvalidMetaSize"}
        /\ ret.kind = "InvalidMetaSize" <=> Len(ret.slice) < size_of_usize
        /\ Len(ret.slice) >= size_of_usize =>
               /\ ret.kind = "Ok"
               /\ ret.index = LittleEndianValue(ret.slice, size_of_usize)

\* C9 witness: nine bytes on a 64-bit target decode to 0x1FF, the ninth ignored
C9_Witness ==
    /\ ret.op = "meta"
    /\ size_of_usize = 8
    /\ ret.slice = <<255, 1, 0, 0, 0, 0, 0, 0, 255>>
    /\ ret.kind = "Ok"
    /\ ret.index = 511

\* ---- properties of ChunkStatus ----------------------------------------------------
\* C10: to_send(n) can be called in every state and leaves number = Some(n),
\* session = Sended, retry = 0.
C10_ToSend ==
    /\ ~aborted => \A n \in 0..MaxNumber : ENABLED ToSendCall(n)
    /\ ret.op = "to_send" =>
           /\ ret.kind = "Ok"
           /\ ~aborted
           /\ status = [number |-> ret.arg, session |-> "Sended", retry |-> 0]

\* C10 witness: to_send(1) on a status that was Received for chunk 0 with the
\* retry counter at 255
C10_Witness ==
    /\ ret.op = "to_send"
    /\ ret.arg = Some(1)
    /\ ret.pre = [number |-> Some(0), session |-> "Received", retry |-> U8Max]
    /\ status = [number |-> Some(1), session |-> "Sended", retry |-> 0]

\* C11: to_received(n) on a status whose number is Some(n) returns and leaves
\* session = Received, retry = 0 and the number as it was.
C11_ToReceived ==
    (ret.op = "to_received" /\ ret.pre.number = ret.arg) =>
        /\ ret.kind = "Ok"
        /\ ~aborted
        /\ status = [number |-> ret.arg, session |-> "Received", retry |-> 0]

\* C11 witness: chunk 1 was sent, retried, and then acknowledged
C11_Witness ==
    /\ ret.op = "to_received"
    /\ ret.arg = Some(1)
    /\ ret.pre.number = Some(1)
    /\ ret.pre.session = "Sended"
    /\ ret.pre.retry >= 2
    /\ status = [number |-> Some(1), session |-> "Received", retry |-> 0]

\* C12: to_received(m) on a status whose number is not Some(m), unset included,
\* panics: it does not return, the status stays as it was, and the outcome is
\* neither of the two error values.
C12_ToReceivedMismatch ==
    (ret.op = "to_received" /\ ret.pre.number # ret.arg) =>
        /\ ret.kind = "Panic"
        /\ ret.kind \notin {"Ok", "InvalidMetaSize", "OverflowRetryCounter"}
        /\ aborted
        /\ status = ret.pre
        /\ status.session # "Received" \/ ret.pre.session = "Received"

\* C12 witness: to_received(0) on a new status, whose number is unset
C12_Witness ==
    /\ ret.op = "to_received"
    /\ ret.arg = Some(0)
    /\ ret.pre = ChunkStatus_new
    /\ ret.kind = "Panic"
    /\ aborted
    /\ status = ChunkStatus_new

\* an increase_retry() call on a status nothing but increase_retry() has touched
FreshRetry == ret.op = "increase_retry" /\ status.number = None /\ status.session = "None"

\* C13 as stated: the 255th increase_retry() in a row on a new status returns
\* OverflowRetryCounter and leaves retry as it was (stated for a call whose
\* trace line was written, so that the call got as far as the counter).
C13_Original ==
    (FreshRetry /\ streak = U8Max /\ ret.kind # "Panic") =>
        /\ ret.kind = "OverflowRetryCounter"
        /\ status.retry = ret.pre.retry

\* C13 amended: of the increase_retry() calls in a row on a new status, the
\* first 255 return Ok(1), ..., Ok(255) and the 256th is the first to return
\* OverflowRetryCounter, leaving retry at 255; a call whose trace line cannot
\* be written to stdout panics instead, and leaves the status as it was.
C13_RetryOverflow ==
    FreshRetry =>
        IF ret.kind = "Panic"
        THEN /\ aborted
             /\ status = ret.pre
             /\ status.retry = Min(streak - 1, U8Max)
        ELSE IF streak <= U8Max
        THEN /\ ret.kind = "Ok"
             /\ ret.index = streak
             /\ status.retry = streak
             /\ ~aborted
        ELSE /\ ret.kind = "OverflowRetryCounter"
             /\ status = ret.pre
             /\ status.retry = U8Max
             /\ ~aborted

\* C13 witness: the 256th call in a row on a new status returned the error
C13_Witness ==
    /\ FreshRetry
    /\ streak = U8Max + 1
    /\ ret.kind = "OverflowRetryCounter"
    /\ ret.pre.retry = U8Max
    /\ status.retry = U8Max

\* C14 as stated: retry stays within 0..255; increase_retry() below 255 adds one
\* and returns the new value, at 255 it returns OverflowRetryCounter and changes
\* nothing; hence at most 255 calls succeed between two resets.
C14_Original ==
    /\ status.retry \in 0..U8Max
    /\ ret.op = "increase_retry" =>
           IF ret.pre.retry < U8Max
           THEN /\ ret.kind = "Ok"
                /\ status = [ret.pre EXCEPT !.retry = ret.pre.retry + 1]
                /\ ret.index = status.retry
           ELSE /\ ret.kind = "OverflowRetryCounter"
                /\ status = ret.pre

\* ---- properties of the boundary arithmetic ------------------------------------------
\* the index the last next() / chunk() call resolved
CalledIndex ==
    IF ret.op = "chunk" THEN unwrap_or(ret.arg, counter)
    ELSE IF ret.kind = "Some" THEN counter - 1
    ELSE counter

\* the documented offset of chunk n (below zero where the subtraction underflows)
Offset(n) ==
    IF n = 0 THEN 0
    ELSE n * max_chunk_size - size_of_usize * n - (size_of_usize + 1)

InPayload(off) == 0 <= off /\ off <= Len(data)

\* C15 as stated: a chunk whose start offset equals the payload length is not
\* returned, so every returned chunk has at least one byte (stated for frames
\* in which every chunk has room for data).
C15_Original ==
    (max_chunk_size >= 2 * size_of_usize + 2 /\ ReturnedChunk) => Len(ret.slice) >= 1

\* C16: chunk n starts at Offset(n); a call that returns gives
\* payload[Offset(i) .. min(Offset(i+1), L)] when Offset(i) is within the payload
\* and None otherwise (an offset that underflowed and wrapped is beyond every
\* payload); with no underflow every call returns, and chunk 0 of a long payload
\* has max_chunk_size - (2*meta_size + 1) bytes.
C16_PointerFormula ==
    ret.op \in {"next", "chunk"} =>
        LET i == CalledIndex
            stop == IF InPayload(Offset(i + 1)) THEN Offset(i + 1) ELSE Len(data)
        IN  /\ NoUnderflow => ret.kind # "Panic"
            /\ ret.kind # "Panic" =>
                   /\ ret.kind = "Some" <=> InPayload(Offset(i))
                   /\ ret.kind = "Some" =>
                          /\ ret.index = i
                          /\ ret.slice = SubSeq(data, Offset(i) + 1, stop)
            /\ (/\ NoUnderflow
                /\ ret.kind = "Some"
                /\ i = 0
                /\ Len(data) >= max_chunk_size - 2 * size_of_usize - 1) =>
                   Len(ret.slice) + 2 * size_of_usize + 1 = max_chunk_size

\* C16 witness: random access to chunk 2 of the test fixture, bytes 475..716
C16_Witness ==
    /\ ret.op = "chunk"
    /\ ret.arg = Some(2)
    /\ ret.kind = "Some"
    /\ Len(data) = TestLen
    /\ max_chunk_size = TestFrame
    /\ Offset(2) = 475
    /\ Len(ret.slice) = 242

\* C17 as stated: with max_chunk_size > meta_size + 1 a next() / chunk() call
\* never panics, its two offsets do not underflow, and the end offset is above
\* the start offset.
C17_Original ==
    (max_chunk_size > size_of_usize + 1 /\ ret.op \in {"next", "chunk"}) =>
        /\ ret.kind # "Panic"
        /\ get_pointer(Self, CalledIndex) >= 0
        /\ get_pointer(Self, CalledIndex + 1) >= 0
        /\ get_pointer(Self, CalledIndex) < get_pointer(Self, CalledIndex + 1)

\* C17 amended: with max_chunk_size >= 2*meta_size + 1 no offset underflows, the
\* offsets never decrease and strictly increase from index 1 on (from index 0
\* when max_chunk_size >= 2*meta_size + 2), and a next() / chunk() call never
\* panics and returns a range inside the payload.
C17_Arithmetic ==
    NoUnderflow =>
        /\ \A i \in 0..(MaxIndex + 1) :
               /\ ~get_pointer_overflows(Self, i)
               /\ get_pointer(Self, i) >= 0
               /\ get_pointer(Self, i) <= get_pointer(Self, i + 1)
               /\ (i >= 1 \/ max_chunk_size >= 2 * size_of_usize + 2) =>
                      get_pointer(Self, i) < get_pointer(Self, i + 1)
        /\ ret.op \in {"next", "chunk"} =>
               /\ ret.kind # "Panic"
               /\ ret.kind = "Some" =>
                      LET st == get_pointer(Self, CalledIndex)
                      IN  /\ st + Len(ret.slice) <= Len(data)
                          /\ ret.slice = SubSeq(data, st + 1, st + Len(ret.slice))

\* C17 witness: the smallest frame without underflow, 2*meta_size + 1: chunk 0
\* is empty and next() went on to return chunk 1 with data
C17_Witness ==
    /\ max_chunk_size = 2 * size_of_usize + 1
    /\ ret.op = "next"
    /\ ret.kind = "Some"
    /\ ret.index = 1
    /\ Len(ret.slice) > 0
    /\ yielded = <<0, 1>>

\* ---- properties of a Chunk and its status together ----------------------------------
ChunkOps == {"next", "chunk", "header", "counter"}
StatusOps == {"to_send", "to_received", "increase_retry"}

\* C18: a new Chunk's status is unset, no next / chunk / header / counter call
\* changes the status, and no to_send / to_received / increase_retry call
\* changes the cursor or anything chunk() and next() read.
C18_Independent ==
    /\ status = ChunkStatus_new
    /\ [][ret'.op \in ChunkOps => status' = status]_vars
    /\ [][ret'.op \in StatusOps =>
            UNCHANGED <<counter, topic, data, max_chunk_size, meta_size,
                        produced, yielded, nones>>]_vars

\* C18 witness: after three chunks the status was still unset; then to_send(1)
\* ran and the cursor is still 3
C18_Witness ==
    /\ ret.op = "to_send"
    /\ ret.pre = ChunkStatus_new
    /\ status.number = Some(1)
    /\ counter = 3
    /\ yielded = <<0, 1, 2>>

\* C19: the number is unset exactly when the session is unset; a Received
\* status tracks the number of the most recent to_send, and to_received
\* returns only on a status already Sended or Received for that number.
C19_StatusInvariant ==
    /\ status.number = None <=> status.session = "None"
    /\ status.number = sent
    /\ status.session = "Received" => (status.number.some /\ status.number = sent)
    /\ (ret.op = "to_received" /\ ret.kind = "Ok") =>
           /\ ret.pre.session \in {"Sended", "Received"}
           /\ ret.pre.number = ret.arg
           /\ status.number = ret.arg

\* C19 witness: chunk 2 went from Sended, with retries, to Received
C19_Witness ==
    /\ ret.op = "to_received"
    /\ ret.pre = [number |-> Some(2), session |-> "Sended", retry |-> 3]
    /\ status = [number |-> Some(2), session |-> "Received", retry |-> 0]
    /\ sent = Some(2)

\* C20: increase_retry() leaves number and session alone whatever its outcome;
\* it looks at neither: in every state, unset, Sended or Received, the call whose
\* trace line is written returns Ok or OverflowRetryCounter as retry alone
\* decides, and the only other outcome is the panic of a trace line that cannot
\* be written; retry goes down only in to_send and in a matching to_received,
\* and then to 0.
C20_RetryFrame ==
    /\ [](~aborted => \A written \in BOOLEAN : ENABLED IncreaseRetryCall(written))
    /\ [][ret'.op = "increase_retry" =>
            /\ status'.number = status.number
            /\ status'.session = status.session
            /\ ret'.kind \in {"Ok", "OverflowRetryCounter", "Panic"}
            /\ ret'.kind = "Panic" <=> aborted'
            /\ ret'.kind = "Ok" => status.retry < U8Max
            /\ ret'.kind = "OverflowRetryCounter" => status.retry = U8Max]_vars
    /\ [][IncreaseRetryCall(TRUE) =>
            /\ ret'.kind \in {"Ok", "OverflowRetryCounter"}
            /\ ~aborted']_vars
    /\ [][status'.retry < status.retry =>
            /\ ret'.op \in {"to_send", "to_received"}
            /\ ret'.kind = "Ok"
            /\ status'.retry = 0
            /\ ret'.op = "to_received" => status.number = ret'.arg]_vars

\* C20 witness: a retry was counted on a status that is Received
C20_Witness ==
    /\ ret.op = "increase_retry"
    /\ ret.kind = "Ok"
    /\ ret.pre = [number |-> Some(0), session |-> "Received", retry |-> 0]
    /\ status = [number |-> Some(0), session |-> "Received", retry |-> 1]

====
